---------------------------- MODULE Spec2Model ----------------------------
(***************************************************************************)
(* Model of the dashboard page of Cyber-Risk-Intelligence                  *)
(* (src/frontend/app/dashboard/page.tsx): the count-up and typewriter      *)
(* hooks, the entity highlighter and the derived metrics of Dashboard.     *)
(*                                                                         *)
(* Strings are sequences of one-character strings.  Time is counted in     *)
(* clock units of 100 ms.  Numbers that may be fractional (count-up        *)
(* targets) are held in tenths.                                            *)
(***************************************************************************)
EXTENDS Integers, Sequences, FiniteSets, TLC

VARIABLES
    \* ---- one MetricCard and its useCountUp hook ----
    now,        \* timestamp of the last animation frame (clock units)
    visible,    \* MetricCard.visible, the hook's trigger
    target,     \* the hook's target argument, in tenths
    current,    \* the hook's state `current`, the displayed value
    rafQueue,   \* callbacks registered with requestAnimationFrame, in order
    gen,        \* history: number of runs of the hook's effect body
    wrote,      \* history: effect runs whose callback wrote `current`
                \* since the latest run of the effect body
    \* ---- the TypewriterText instances and their useTypewriter hooks ----
    tw,         \* per slot of the page: the instance mounted there
    twTimers,   \* the live intervals (setInterval not yet cleared)
    \* ---- Dashboard ----
    text,       \* the input text box
    url,        \* the URL field
    data,       \* the held analysis record, or Null
    execMode,   \* the executive-mode toggle
    loading,    \* the loading flag
    showResults,    \* whether the results are shown
    inflight,   \* the analysis operation awaiting its response, or "none"
    revealTimers,   \* pending setTimeout(() => setShowResults(true), 100)
    requests,   \* history: requests sent
    notices,    \* history: alerts raised
    \* ---- calls of makeSparkline ----
    rand,       \* the `s` of the closure the latest seededRand call made
    lastCall,   \* history: the latest call of makeSparkline and its result
    watched,    \* history: the arguments whose calls are compared
    watchedPoints,  \* history: what the first call with them returned
    \* ---- Dashboard: the controls of the result panels ----
    selectedSim,    \* the simulation channel tab
    showDetailed,   \* the simple / detailed switch of the phishing preview
    checklist,      \* the ticks of the security checklist
    \* ---- AttackPathFlow ----
    attack,     \* the instance: mounted, its prop `active`, its state
                \* `step`, and the number of live intervals
    atStart     \* history: showResults and step when the latest request
                \* was started

cuVars == <<now, visible, target, current, rafQueue, gen, wrote>>
twVars == <<tw, twTimers>>
dashVars == <<text, url, data, execMode, loading, showResults, inflight,
              revealTimers, requests, notices>>

sparkVars == <<rand, lastCall, watched, watchedPoints>>

uiVars == <<selectedSim, showDetailed, checklist>>

attackVars == <<attack, atStart>>

vars == <<cuVars, twVars, dashVars, sparkVars, uiVars, attackVars>>

-----------------------------------------------------------------------------
(* Bounds of the model *)

MaxTime == 30       \* the clock stops here
MaxTriggers == 2    \* runs of the count-up effect body per widget
MaxReveals == 3     \* runs of the typewriter effect body per slot
MaxRequests == 3    \* analysis requests sent

Min(a, b) == IF a <= b THEN a ELSE b

-----------------------------------------------------------------------------
(* useTypewriter, TypewriterText *)

\* The places of the page that hold a TypewriterText.
Slots == {1, 2}

\* Source texts: the empty text, a text and an extension of it, and a text
\* that shares no prefix with them.
Texts == { <<>>, <<"a", "b">>, <<"a", "b", "c">>, <<"x", "y">> }

\* text.slice(0, i) for i >= 0.
Slice(txt, i) == SubSeq(txt, 1, Min(i, Len(txt)))

IsPrefix(p, t) == Len(p) <= Len(t) /\ p = SubSeq(t, 1, Len(p))

\* No instance in the slot.  runs counts the effect runs of the slot and
\* first is the first effect run of the mounted instance; cleanup is the
\* interval the cleanup function of the latest effect run clears (0: that
\* run returned none); ticks is history: the interval callbacks that wrote
\* `displayed` since the latest effect run.
Unmounted(runs) ==
    [ mounted |-> FALSE, text |-> <<>>, displayed |-> <<>>,
      cleanup |-> 0, runs |-> runs, first |-> 0, ticks |-> 0 ]

TwIdle ==
    /\ tw = [w \in Slots |-> Unmounted(0)]
    /\ twTimers = {}

\* An effect that returns no cleanup function.
TwNoCleanup(w, timers) == timers

\* The cleanup function the effect returned: () => clearInterval(id).
TwCleanup(w, timers) ==
    { tm \in timers : ~(tm.slot = w /\ tm.id = tw[w].cleanup) }

\* The state `displayed` after the guard of the effect body,
\* if (!trigger || !text) return; setDisplayed("").
TwGuard(txt, disp) == IF txt = <<>> THEN disp ELSE <<>>

\* The effect body of useTypewriter(text, speed, !!text) of an instance of
\* slot w whose state `displayed` is disp and whose first effect run is
\* first (0: this one); timers are the live intervals after the cleanup of
\* the previous run.
TwEffect(w, txt, disp, first, timers) ==
    LET id == tw[w].runs + 1
        st == [ mounted |-> TRUE, text |-> txt,
                displayed |-> TwGuard(txt, disp),
                cleanup |-> IF txt = <<>> THEN 0 ELSE id,
                runs |-> id,
                first |-> IF first = 0 THEN id ELSE first,
                ticks |-> 0 ]
    IN  /\ tw' = [tw EXCEPT ![w] = st]
        /\ twTimers' =
             IF txt = <<>> THEN timers
             ELSE timers \cup {[slot |-> w, id |-> id, text |-> txt, i |-> 0]}

\* A TypewriterText is mounted in slot w: useState("") and the effect.
TwMount(w, txt) ==
    /\ ~tw[w].mounted
    /\ tw[w].runs < MaxReveals
    /\ TwEffect(w, txt, <<>>, 0, twTimers)
    /\ UNCHANGED <<cuVars, dashVars, sparkVars, uiVars, attackVars>>

\* The instance of slot w is rendered with another text: the dependency
\* [text, trigger] changed, so the cleanup and then the effect body run.
TwSetText(w, txt) ==
    /\ tw[w].mounted
    /\ txt # tw[w].text
    /\ tw[w].runs < MaxReveals
    /\ TwEffect(w, txt, tw[w].displayed, tw[w].first,
                TwCleanup(w, twTimers))
    /\ UNCHANGED <<cuVars, dashVars, sparkVars, uiVars, attackVars>>

\* The key of the TypewriterText of slot w changes (key={selectedSim},
\* key={showDetailed ? "detailed" : "simple"}): the instance is unmounted
\* and a new one is mounted, with the same or another text.
TwSetKey(w, txt) ==
    /\ tw[w].mounted
    /\ tw[w].runs < MaxReveals
    /\ TwEffect(w, txt, <<>>, 0, TwCleanup(w, twTimers))
    /\ UNCHANGED <<cuVars, dashVars, sparkVars, uiVars, attackVars>>

\* The instance of slot w is unmounted.
TwUnmount(w) ==
    /\ tw[w].mounted
    /\ tw' = [tw EXCEPT ![w] = Unmounted(tw[w].runs)]
    /\ twTimers' = TwCleanup(w, twTimers)
    /\ UNCHANGED <<cuVars, dashVars, sparkVars, uiVars, attackVars>>

\* TwFinished with > in the place of >=.
TwFinishedLate(txt, i) == i > Len(txt)

\* Whether the interval callback clears its own interval after revealing
\* i characters: if (i >= text.length) clearInterval(id).
TwFinished(txt, i) == i >= Len(txt)

\* The callback of the live interval tm runs: i++, setDisplayed, and the
\* interval is cleared when the text is complete.  setDisplayed reaches the
\* instance that created the interval, if it is still the mounted one.
TwTick(tm) ==
    LET w == tm.slot
        i == tm.i + 1
        own == tw[w].mounted /\ tm.id >= tw[w].first
    IN  /\ tm \in twTimers
        /\ tw' = [tw EXCEPT ![w] =
                    IF own
                    THEN [@ EXCEPT !.displayed = Slice(tm.text, i),
                                   !.ticks = @ + 1]
                    ELSE @]
        /\ twTimers' = (twTimers \ {tm}) \cup
               (IF TwFinished(tm.text, i) THEN {}
                ELSE {[tm EXCEPT !.i = i]})
        /\ UNCHANGED <<cuVars, dashVars, sparkVars, uiVars, attackVars>>

NextTypewriter ==
    \/ \E w \in Slots, t \in Texts : TwMount(w, t)
    \/ \E w \in Slots, t \in Texts : TwSetText(w, t)
    \/ \E w \in Slots, t \in Texts : TwSetKey(w, t)
    \/ \E w \in Slots : TwUnmount(w)
    \/ \E tm \in twTimers : TwTick(tm)

\* An interval that is not cleared keeps firing: each slot's live interval
\* eventually runs its callback.
TwFairness ==
    \A w \in Slots :
        WF_vars(\E tm \in twTimers : tm.slot = w /\ TwTick(tm))


-----------------------------------------------------------------------------
(* useCountUp, MetricCard *)

\* useCountUp(numericValue ?? 0, 1100, visible): 1100 ms in clock units.
Duration == 11

\* Targets a card is given, in tenths: 0, 1, 12.5, 50, 100 and -4.5.
Targets == {-45, 0, 10, 125, 500, 1000}

\* Gaps between two animation frames: a short one, a long one, and one
\* longer than the whole animation.
FrameGaps == {1, 5, 12}

\* Math.round of the rational n / d (d > 0): floor(n/d + 1/2).
Round(n, d) == (2 * n + d) \div (2 * d)

Cube(x) == x * x * x

\* EasedValue with Math.floor in the place of Math.round.
EasedValueFloor(tgt, e) ==
    (tgt * (Cube(Duration) - Cube(Duration - e))) \div (10 * Cube(Duration))

\* The value one call of `step` writes: with e = min(ts - start, duration),
\* progress = e / duration, eased = 1 - (1 - progress)^3 and
\* Math.round(0 + (target - 0) * eased); tgt is in tenths.
EasedValue(tgt, e) ==
    Round(tgt * (Cube(Duration) - Cube(Duration - e)), 10 * Cube(Duration))

\* StepChain that measures the elapsed time from the mount of the card (the
\* clock is 1 then) instead of from the first frame of the chain.
StepChainFromMount(c, ts) ==
    LET e == Min(ts - 1, Duration)
    IN  [ value |-> EasedValue(c.target, e),
          again |-> e < Duration,
          chain |-> [c EXCEPT !.start = 1] ]

\* One call of the closure `step` with timestamp ts.  A chain is the closure:
\* its target, its `start` (0 while it is still null: `!start` is true of
\* both) and the effect run that made it; `at` is history, the clock when
\* that effect run made it.
StepChain(c, ts) ==
    LET start == IF c.start = 0 THEN ts ELSE c.start
        e == Min(ts - start, Duration)
    IN  [ value |-> EasedValue(c.target, e),
          again |-> e < Duration,
          chain |-> [c EXCEPT !.start = start] ]

\* The order in which one frame runs the registered callbacks.
FrameOrder(q) == q

\* One animation frame: every registered callback runs once with the same
\* timestamp, in registration order; a callback that registers itself again
\* runs in the next frame.  acc = [current, queue, wrote].
RECURSIVE RunCallbacks(_, _, _)
RunCallbacks(q, ts, acc) ==
    IF q = <<>> THEN acc
    ELSE LET s == StepChain(Head(q), ts)
         IN  RunCallbacks(Tail(q), ts,
                 [ current |-> s.value,
                   queue |-> IF s.again THEN Append(acc.queue, s.chain)
                             ELSE acc.queue,
                   wrote |-> acc.wrote \cup {Head(q).gen} ])

\* What re-running the effect does to the callbacks of the previous run:
\* the effect returns no cleanup function, so they stay registered.
EffectCleanup(q) == q

\* The effect body of useCountUp for the dependencies (tgt, trigger).
RunEffect(tgt, trigger) ==
    IF ~trigger
    THEN UNCHANGED <<rafQueue, gen, wrote>>
    ELSE /\ gen < MaxTriggers
         /\ gen' = gen + 1
         /\ wrote' = {}
         /\ rafQueue' = Append(EffectCleanup(rafQueue),
                               [target |-> tgt, start |-> 0, gen |-> gen + 1,
                                at |-> now])

\* A card that has just been mounted with numericValue tgt.
CuMounted(tgt) ==
    /\ now = 1
    /\ visible = FALSE
    /\ target = tgt
    /\ current = 0
    /\ rafQueue = <<>>
    /\ gen = 0
    /\ wrote = {}

CuIdle == CuMounted(0)

\* The stagger delays of the cards after the first (staggerMs 80 .. 320),
\* in clock units.
StaggerDelays == {1, 3}

\* MetricCard: the stagger delay dt of the card passes after its mount.
StaggerWait(dt) ==
    /\ ~visible
    /\ now = 1
    /\ now' = now + dt
    /\ UNCHANGED <<visible, target, current, rafQueue, gen, wrote>>
    /\ UNCHANGED <<twVars, dashVars, sparkVars, uiVars, attackVars>>

\* MetricCard: the stagger timeout fires, setVisible(true).
StaggerElapsed ==
    /\ ~visible
    /\ visible' = TRUE
    /\ RunEffect(target, TRUE)
    /\ UNCHANGED <<now, target, current>>
    /\ UNCHANGED <<twVars, dashVars, sparkVars, uiVars, attackVars>>

\* The card is rendered with another numericValue.
SetTarget(t) ==
    /\ t # target
    /\ target' = t
    /\ RunEffect(t, visible)
    /\ UNCHANGED <<now, visible, current>>
    /\ UNCHANGED <<twVars, dashVars, sparkVars, uiVars, attackVars>>

\* The browser runs an animation frame dt after the previous one.
Frame(dt) ==
    /\ rafQueue # <<>>
    /\ now + dt <= MaxTime
    /\ now' = now + dt
    /\ LET r == RunCallbacks(FrameOrder(rafQueue), now + dt,
                    [current |-> current, queue |-> <<>>, wrote |-> wrote])
       IN  /\ current' = r.current
           /\ rafQueue' = r.queue
           /\ wrote' = r.wrote
    /\ UNCHANGED <<visible, target, gen>>
    /\ UNCHANGED <<twVars, dashVars, sparkVars, uiVars, attackVars>>

NextCountUp ==
    \/ \E dt \in StaggerDelays : StaggerWait(dt)
    \/ StaggerElapsed
    \/ \E t \in Targets : SetTarget(t)
    \/ \E dt \in FrameGaps : Frame(dt)

-----------------------------------------------------------------------------
(* Strings *)

UpperCase ==
    <<"A", "B", "C", "D", "E", "F", "G", "H", "I", "J", "K", "L", "M",
      "N", "O", "P", "Q", "R", "S", "T", "U", "V", "W", "X", "Y", "Z">>

LowerCase ==
    <<"a", "b", "c", "d", "e", "f", "g", "h", "i", "j", "k", "l", "m",
      "n", "o", "p", "q", "r", "s", "t", "u", "v", "w", "x", "y", "z">>

\* The lower-case letter of each upper-case letter.
LowerOf ==
    [ c \in { UpperCase[i] : i \in 1..26 } |->
        LowerCase[CHOOSE i \in 1..26 : UpperCase[i] = c] ]

ToLower(c) == IF c \in DOMAIN LowerOf THEN LowerOf[c] ELSE c

\* s.toLowerCase()
LowerStr(s) == [i \in 1..Len(s) |-> ToLower(s[i])]

\* Whether t occurs in s at position pos.
StartsWithAt(s, pos, t) ==
    /\ pos + Len(t) - 1 <= Len(s)
    /\ SubSeq(s, pos, pos + Len(t) - 1) = t

\* s.includes(t)
Includes(s, t) == \E pos \in 1..(Len(s) + 1) : StartsWithAt(s, pos, t)

\* IsBlank that only recognises the empty string.
IsEmptyOnly(s) == s = <<>>

\* s.trim() is empty.
IsBlank(s) == \A i \in 1..Len(s) : s[i] = " "

Family == <<"f", "a", "m", "i", "l", "y">>

-----------------------------------------------------------------------------
(* The analysis record and the state of Dashboard *)

\* data === null
Null == [present |-> FALSE]

\* An AnalysisData payload.  entities is the mapping in the order of its
\* keys, has_entities is FALSE when the payload has no entities mapping;
\* the sentiment score is in thousandths.
Record(txt, hasEntities, entities, score, fc, sentiment, trend) ==
    [ present |-> TRUE,
      original_text |-> txt,
      has_entities |-> hasEntities,
      entities |-> entities,
      overall_risk_score |-> score,
      feature_contributions |-> fc,
      sentiment_score |-> sentiment,
      trend_analysis |-> trend ]

Entity(label, vals) == [label |-> label, vals |-> vals]

\* Contents of the input text box: empty, blank, and two texts.
BoxTexts == { <<>>, <<" ">>, <<"m", "y", " ", "f", "a", "m", "i", "l", "y">>, <<"h", "i">> }

\* Source texts of the records the highlighter is run on.
HlTexts ==
    { <<>>,
      <<"j", "e", "n", "n", "i", "f", "e", "r", " ", "w", "a", "l", "s", "h",
        " ", "o", "n", " ", "A", ".", "B", "*", "C", " ", "A", "x", "B", "C">>,
      <<"A", "n", "n", " ", "L", "e", "e", " ", "a", "t", " ", "S", "p", "a",
        "n">>,
      <<"A", "m", "i", " ", "a", "n", "d", " ", "F", "a", "m", "i", "l", "y">> }

\* Entities mappings of these records.
HlEntities ==
    { <<>>,
      <<Entity("PERSON", <<<<"J", "e", "n", "n", "i", "f", "e", "r", " ", "W",
                             "a", "l", "s", "h">>>>),
        Entity("ORG", <<<<"A", ".", "B", "*", "C">>>>)>>,
      <<Entity("PERSON", <<<<"A", "n", "n", " ", "L", "e", "e">>, <<"L", "e", "e">>>>),
        Entity("GPE", <<>>)>>,
      <<Entity("PERSON", <<<<"A", "n", "n">>>>),
        Entity("ORG", <<<<"S", "p", "a", "n">>>>)>>,
      <<Entity("PERSON", <<<<"A", "m", "i">>>>)>>,
      <<Entity("EVENT", <<<<"F", "a", "m", "i", "l", "y">>>>)>>,
      <<Entity("PERSON", <<<<"A", "n", "n", " ", "L", "e", "e">>>>),
        Entity("ORG", <<<<"L", "e", "e", " ", "a", "t">>>>)>> }

NoTrend == [d30 |-> 0, d14 |-> 0, current |-> 0]

\* The records whose text and entities vary.
HlRecords ==
    { Record(t, TRUE, e, 0, <<>>, 0, NoTrend) :
          t \in HlTexts, e \in HlEntities }
    \cup { Record(t, FALSE, <<>>, 0, <<>>, 0, NoTrend) : t \in HlTexts }

\* The records whose numbers vary.
DashRecords ==
    { Record(<<"m", "y", " ", "f", "a", "m", "i", "l", "y">>, TRUE, <<>>, 40,
             [PERSON |-> 12, GPE |-> 20, ORG |-> 5], 300,
             [d30 |-> 40, d14 |-> 55, current |-> 70]),
      Record(<<"h", "i">>, TRUE, <<>>, 90,
             [PERSON |-> 30], -450,
             [d30 |-> 40, d14 |-> 30, current |-> 20]),
      Record(<<"h", "i">>, FALSE, <<>>, 0, <<>>, 0, NoTrend) }

\* overall_risk_score of the records whose score varies.
Scores == 0..100

\* The records whose score, weights, sentiment and trend vary: every score
\* with nothing else, and records with weights, sentiments (0.3, -0.45,
\* 0.456) and trends of each shape.
MetricRecords ==
    { Record(<<"h", "i">>, TRUE, <<>>, s, <<>>, 0, NoTrend) : s \in Scores }
    \cup DashRecords
    \cup { Record(<<"M", "y", " ", "F", "A", "M", "I", "L", "y">>, TRUE, <<>>,
                  21, [PERSON |-> 0, GPE |-> 0, ORG |-> 0], 456,
                  [d30 |-> 50, d14 |-> 70, current |-> 50]),
           Record(<<>>, TRUE, <<>>, 61, [GPE |-> 100, DATE |-> 7], -5,
                  [d30 |-> 20, d14 |-> 30, current |-> 21]) }

\* The four analysis operations.
Operations == {"text", "url", "csv", "pdf"}

DashIdle ==
    /\ text = <<>>
    /\ url = <<>>
    /\ data = Null
    /\ execMode = FALSE
    /\ loading = FALSE
    /\ showResults = FALSE
    /\ inflight = "none"
    /\ revealTimers = 0
    /\ requests = 0
    /\ notices = 0

-----------------------------------------------------------------------------
(* AttackPathFlow, rendered with active = showResults while a record is held *)

\* ATTACK_STAGES.length
AttackStages == 5

AttackUnmounted == [mounted |-> FALSE, active |-> FALSE, step |-> 0,
                    intervals |-> 0]

\* An effect run whose cleanup clears nothing.
AttackNoCleanup(a) == a

\* The cleanup an effect run with active = true returned:
\* clearInterval(interval).
AttackCleanup(a) == [a EXCEPT !.intervals = @ - 1]

\* The effect body for the prop `active`: setStep(0) and no cleanup when it
\* is false, otherwise a new interval of 600 ms.
AttackEffect(a, active) ==
    IF ~active THEN [a EXCEPT !.active = FALSE, !.step = 0]
    ELSE [a EXCEPT !.active = TRUE, !.intervals = @ + 1]

\* A render of the results grid: the instance exists while a record is held
\* (mounted), its effect runs on mount and whenever `active` has changed,
\* after the cleanup of the previous run.
AttackRender(a, mounted, active) ==
    IF ~mounted
    THEN AttackUnmounted
    ELSE IF ~a.mounted
    THEN AttackEffect([AttackUnmounted EXCEPT !.mounted = TRUE], active)
    ELSE IF active = a.active
    THEN a
    ELSE AttackEffect(IF a.active THEN AttackCleanup(a) ELSE a, active)

\* setStep((s) => (s < ATTACK_STAGES.length - 1 ? s + 1 : s))
NextStep(s) == IF s < AttackStages - 1 THEN s + 1 ELSE s

\* The simulation channels (SIM_TABS) and the checklist (CHECKLIST_ITEMS).
SimTabs == {"email", "sms", "linkedin", "voice"}

ChecklistItems == 1 .. 4

PageIdle ==
    /\ selectedSim = "email"
    /\ showDetailed = FALSE
    /\ checklist = [i \in ChecklistItems |-> FALSE]
    /\ attack = AttackUnmounted
    /\ atStart = [showResults |-> FALSE, step |-> 0]

-----------------------------------------------------------------------------
(* Derived metrics of Dashboard *)

\* data?.original_text ?? text
SourceText == IF data = Null THEN text ELSE data.original_text

\* data.original_text || text, the text the highlighter is given
ShownText == IF data.original_text = <<>> THEN text ELSE data.original_text

Score == IF data = Null THEN 0 ELSE data.overall_risk_score

\* EffectiveScore without the cap at 100.
EffectiveScoreUncapped ==
    IF execMode THEN Round(12 * Score, 10) ELSE Score

\* execMode ? Math.min(Math.round(score * 1.2), 100) : score
EffectiveScore ==
    IF execMode THEN Min(Round(12 * Score, 10), 100) ELSE Score

\* data?.feature_contributions?.[key] ?? 0
Contribution(key) ==
    IF data = Null THEN 0
    ELSE IF key \in DOMAIN data.feature_contributions
         THEN data.feature_contributions[key]
         ELSE 0

IdentityIdx == Contribution("PERSON")
LocationIdx == Contribution("GPE")
CorpIdx == Contribution("ORG")

\* EmoIdx with Math.floor in the place of Math.round.
EmoIdxFloor ==
    IF data = Null THEN 0 ELSE (100 * data.sentiment_score) \div 1000

\* Math.round((data?.behavioral_analysis?.sentiment?.score ?? 0) * 100)
EmoIdx == IF data = Null THEN 0 ELSE Round(100 * data.sentiment_score, 1000)

\* (data?.original_text ?? text).toLowerCase().includes("family") ? 73 : 0
FamilyIdx == IF Includes(LowerStr(SourceText), Family) THEN 73 ELSE 0

\* x || y for numbers
OrElse(x, y) == IF x = 0 THEN y ELSE x

BreakdownData ==
    IF data = Null THEN <<>>
    ELSE << [name |-> "Location Exposure", value |-> OrElse(LocationIdx, 10)],
            [name |-> "Corporate Mentions", value |-> OrElse(CorpIdx, 10)],
            [name |-> "Family Exposure", value |-> FamilyIdx],
            [name |-> "Emotional Signals", value |-> OrElse(EmoIdx, 15)],
            [name |-> "Identity", value |-> OrElse(IdentityIdx, 12)] >>

TrendData ==
    IF data = Null THEN <<>>
    ELSE << [name |-> "30d", value |-> data.trend_analysis.d30],
            [name |-> "14d", value |-> data.trend_analysis.d14],
            [name |-> "Now", value |-> data.trend_analysis.current] >>

\* One point per key of feature_contributions, by key.
RadarData ==
    IF data = Null THEN <<>>
    ELSE [ k \in DOMAIN data.feature_contributions |->
             Min(data.feature_contributions[k] * 5, 100) ]

\* getRiskLabel with < in the place of <=.
GetRiskLabelStrict(s) ==
    IF s < 30 THEN "Low Risk"
    ELSE IF s < 60 THEN "Moderate Risk"
    ELSE IF s < 80 THEN "High Risk"
    ELSE "Critical Risk"

\* getRiskLabel(s)
GetRiskLabel(s) ==
    IF s <= 30 THEN "Low Risk"
    ELSE IF s <= 60 THEN "Moderate Risk"
    ELSE IF s <= 80 THEN "High Risk"
    ELSE "Critical Risk"

\* getRiskColor without the executive-mode line.
GetRiskColorByBand(s) ==
    IF s <= 30 THEN "#4ade80"
    ELSE IF s <= 60 THEN "#facc15"
    ELSE IF s <= 80 THEN "#fb923c"
    ELSE "#f87171"

\* getRiskColor(s)
GetRiskColor(s) ==
    IF execMode THEN "#f87171"
    ELSE IF s <= 30 THEN "#4ade80"
    ELSE IF s <= 60 THEN "#facc15"
    ELSE IF s <= 80 THEN "#fb923c"
    ELSE "#f87171"

\* getRiskLabel() and getRiskColor(): s = effectiveScore
RiskLabel == GetRiskLabel(EffectiveScore)
RiskColor == GetRiskColor(EffectiveScore)

\* The rows of the Exposure Heatmap panel.
HeatmapData ==
    << [label |-> "Identity", value |-> OrElse(IdentityIdx, 45)],
       [label |-> "Location", value |-> OrElse(LocationIdx, 30)],
       [label |-> "Corporate", value |-> OrElse(CorpIdx, 25)],
       [label |-> "Family", value |-> OrElse(FamilyIdx, 0)],
       [label |-> "Emotional", value |-> OrElse(EmoIdx, 20)] >>

\* The metric cards that draw a synthesized sparkline, by their seed slot.
Cards == 1..5

\* val of the card's makeSparkline(val, slot).
CardValue(k) ==
    CASE k = 1 -> EffectiveScore
      [] k = 2 -> OrElse(IdentityIdx, 20)
      [] k = 3 -> OrElse(LocationIdx, 15)
      [] k = 4 -> OrElse(CorpIdx, 10)
      [] k = 5 -> OrElse(EmoIdx, 20)

\* numericValue of the metric cards, the targets of their count-ups.
CardTarget(k) ==
    CASE k = 1 -> EffectiveScore
      [] k = 2 -> IdentityIdx
      [] k = 3 -> LocationIdx
      [] k = 4 -> CorpIdx
      [] k = 5 -> EmoIdx

\* HeatmapRow: the width of the bar, Math.min(value, 100), and the number
\* shown beside it, Math.round(value); the values are integers.
HeatmapWidth(value) == Min(value, 100)
HeatmapShown(value) == value

\* radialData[0].value
RadialValue == EffectiveScore

\* seed + Math.round(val) of the card's call; the values are integers.
CardSeed(k) == k + CardValue(k)

\* TrendDirection comparing with the value of 14 days ago.
TrendDirectionVs14 ==
    IF data.trend_analysis.current > data.trend_analysis.d14
    THEN "up" ELSE "down"

\* trend of the Risk Trend card.
TrendDirection ==
    IF data.trend_analysis.current > data.trend_analysis.d30
    THEN "up" ELSE "down"

-----------------------------------------------------------------------------
(* seededRand, makeSparkline *)

\* A 32-bit word is held as its two 16-bit halves, so that no product
\* leaves the range of the integers of the model checker.
Half == 2 ^ 16

\* The word an integer of small magnitude is read as (n >>> 0).
Word(n) == [hi |-> (n \div Half) % Half, lo |-> n % Half]

\* The multiplier and the increment of seededRand.
LcgA == 1664525
LcgC == 1013904223

\* (s * 1664525 + 1013904223) & 0xffffffff, on the halves of s.
Lcg(w) ==
    LET low == w.lo * (LcgA % Half) + (LcgC % Half)
        high == w.hi * (LcgA % Half) + w.lo * (LcgA \div Half)
                    + (LcgC \div Half) + (low \div Half)
    IN  [hi |-> high % Half, lo |-> low % Half]

\* The divisor of a draw, 0xffffffff.
RandDivisor == [hi |-> Half - 1, lo |-> Half - 1]

\* One call of the closure seededRand returned, with state s: the new state
\* and the value returned, (s >>> 0) / 0xffffffff, as a fraction.
RandDraw(s) ==
    LET next == Lcg(s)
    IN  [state |-> next, value |-> [num |-> next, den |-> RandDivisor]]

\* No closure has been made, no call has been made.
NoRand == [made |-> FALSE]
NoCall == [made |-> FALSE]

\* A generator that is made once and then shared by all calls.
SeededRandShared(seed) == IF rand = NoRand THEN Word(seed) ELSE rand

\* seededRand(seed): let s = seed, the state of a new closure.
SeededRand(seed) == Word(seed)

\* Whether aHi * 2^16 + aLo < bHi * 2^16 + bLo.
WideLess(aHi, aLo, bHi, bLo) ==
    LET a == aHi + (aLo \div Half)
        b == bHi + (bLo \div Half)
    IN  a < b \/ (a = b /\ aLo % Half < bLo % Half)

\* Whether twelfths / 12 + 4 * value is below 0, for -1200 <= twelfths.
NegativeSum(twelfths, value) ==
    /\ twelfths < 0
    /\ WideLess(48 * value.num.hi, 48 * value.num.lo,
                (-twelfths) * value.den.hi, (-twelfths) * value.den.lo)

\* The point 0.
ZeroPoint ==
    [twelfths |-> 0, draw |-> [num |-> Word(0), den |-> RandDivisor]]

\* Math.max(0, val - (6 - i) * (val / 12) + rand() * 4) for the drawn value:
\* the point twelfths / 12 + 4 * draw.
Point(val, i, value) ==
    LET twelfths == 12 * val - (6 - i) * val
    IN  IF NegativeSum(twelfths, value) THEN ZeroPoint
        ELSE [twelfths |-> twelfths, draw |-> value]

\* Array.from({ length: 7 }, (_, i) => ...): the points from index i on,
\* each calling rand() once; s is the state of the closure.
RECURSIVE SparkPoints(_, _, _, _, _)
SparkPoints(val, i, s, points, draws) ==
    IF i = 7 THEN [points |-> points, draws |-> draws, rand |-> s]
    ELSE LET d == RandDraw(s)
         IN  SparkPoints(val, i + 1, d.state,
                 Append(points, Point(val, i, d.value)), Append(draws, d))

\* makeSparkline(val, seed): the points, the draws made (history) and the
\* state the closure is left in.
MakeSparkline(val, seed) ==
    SparkPoints(val, 0, SeededRand(seed + Round(val, 1)), <<>>, <<>>)

\* The arguments of the calls that are compared: every val 0..100 with
\* every seed slot.
SparkArgs == { [val |-> v, seed |-> k] : v \in 0..100, k \in Cards }

\* The arguments of the calls made in between: values of each sign and the
\* default seed.
OtherArgs == { [val |-> v, seed |-> k] : v \in {-45, -1, 0, 20, 100},
                                         k \in {1, 5, 42} }

SparkIdle ==
    /\ rand = NoRand
    /\ lastCall = NoCall
    /\ watched = [val |-> 0, seed |-> 1]
    /\ watchedPoints = <<>>

\* A render calls makeSparkline(a.val, a.seed).  between is history: a call
\* with other arguments was made after the first call with the watched ones.
CallMakeSparkline(a) ==
    LET r == MakeSparkline(a.val, a.seed)
        between == \/ a # watched /\ watchedPoints # <<>>
                   \/ lastCall # NoCall /\ lastCall.between
    IN  /\ rand' = r.rand
        /\ lastCall' = [made |-> TRUE, val |-> a.val, seed |-> a.seed,
                        points |-> r.points, draws |-> r.draws,
                        between |-> between]
        /\ watchedPoints' = IF a = watched /\ watchedPoints = <<>>
                            THEN r.points ELSE watchedPoints
        /\ UNCHANGED watched
        /\ UNCHANGED <<cuVars, twVars, dashVars, uiVars, attackVars>>

CallWatched == CallMakeSparkline(watched)

CallOther(a) == a # watched /\ CallMakeSparkline(a)

NextSparkline ==
    \/ CallWatched
    \/ \E a \in OtherArgs : CallOther(a)

InitSparkline ==
    /\ CuIdle /\ TwIdle /\ DashIdle /\ PageIdle
    /\ rand = NoRand
    /\ lastCall = NoCall
    /\ watched \in SparkArgs
    /\ watchedPoints = <<>>

SpecSparkline == InitSparkline /\ [][NextSparkline]_vars

-----------------------------------------------------------------------------
(* highlightText *)

\* colorMap[label] || "#a78bfa"
ColorOf(label) ==
    CASE label = "GPE" -> <<"#", "f", "9", "7", "3", "1", "6">>
      [] label = "PERSON" -> <<"#", "6", "0", "a", "5", "f", "a">>
      [] label = "ORG" -> <<"#", "2", "2", "d", "3", "e", "e">>
      [] label = "DATE" -> <<"#", "a", "7", "8", "b", "f", "a">>
      [] OTHER -> <<"#", "a", "7", "8", "b", "f", "a">>

\* The replacement of an entity pass up to $1:
\* <span style="background:${color}30;color:${color};border:1px solid
\* ${color}60;border-radius:4px;padding:0 3px;font-weight:600;">
OpenTag(color) ==
    <<"<", "s", "p", "a", "n", " ", "s", "t", "y", "l", "e", "=", "\"", "b",
      "a", "c", "k", "g", "r", "o", "u", "n", "d", ":">> \o color
    \o <<"3", "0", ";", "c", "o", "l", "o", "r", ":">> \o color
    \o <<";", "b", "o", "r", "d", "e", "r", ":", "1", "p", "x", " ", "s", "o",
         "l", "i", "d", " ">> \o color
    \o <<"6", "0", ";", "b", "o", "r", "d", "e", "r", "-", "r", "a", "d", "i",
         "u", "s", ":", "4", "p", "x", ";", "p", "a", "d", "d", "i", "n", "g",
         ":", "0", " ", "3", "p", "x", ";", "f", "o", "n", "t", "-", "w", "e",
         "i", "g", "h", "t", ":", "6", "0", "0", ";", "\"", ">">>

\* The replacement of the family pass up to $1.
FamilyOpenTag ==
    <<"<", "s", "p", "a", "n", " ", "s", "t", "y", "l", "e", "=", "\"", "b",
      "a", "c", "k", "g", "r", "o", "u", "n", "d", ":", "#", "f", "8", "7",
      "1", "7", "1", "4", "0", ";", "c", "o", "l", "o", "r", ":", "#", "f",
      "8", "7", "1", "7", "1", ";">>
    \o <<"b", "o", "r", "d", "e", "r", ":", "1", "p", "x", " ", "s", "o", "l",
         "i", "d", " ", "#", "f", "8", "7", "1", "7", "1", "6", "0", ";", "b",
         "o", "r", "d", "e", "r", "-", "r", "a", "d", "i", "u", "s", ":", "4",
         "p", "x", ";">>
    \o <<"p", "a", "d", "d", "i", "n", "g", ":", "0", " ", "3", "p", "x", ";",
         "f", "o", "n", "t", "-", "w", "e", "i", "g", "h", "t", ":", "6", "0",
         "0", ";", "\"", ">">>

\* The replacement after $1.
CloseTag == <<"<", "/", "s", "p", "a", "n", ">">>

\* EscapedChars without "." and "*".
EscapedCharsNoStar ==
    { "-", "/", "\\", "^", "$", "+", "?",
      "(", ")", "|", "[", "]", "{", "}" }

\* The characters v.replace(/[-/\\^$*+?.()|[\]{}]/g, "\\$&") escapes.
EscapedChars ==
    { "-", "/", "\\", "^", "$", "*", "+", "?", ".",
      "(", ")", "|", "[", "]", "{", "}" }

\* esc: every escaped character gets a backslash in front.
RECURSIVE EscapeRe(_)
EscapeRe(v) ==
    IF v = <<>> THEN <<>>
    ELSE (IF Head(v) \in EscapedChars THEN <<"\\", Head(v)>> ELSE <<Head(v)>>)
         \o EscapeRe(Tail(v))

\* new RegExp(`(${esc})`, "gi"): the atoms of the pattern inside the group,
\* or threw.  A backslash makes the next character a literal; an unescaped
\* "." matches any character and an unescaped "*" repeats the atom before
\* it; an unescaped "*" with nothing to repeat, a lone backslash and an
\* unescaped "(", ")" or "[" are syntax errors.  With the flag i the atoms
\* are compared in one letter case.
RECURSIVE ParseRe(_, _)
ParseRe(p, atoms) ==
    IF p = <<>> THEN [threw |-> FALSE, atoms |-> atoms]
    ELSE LET c == Head(p)
         IN  CASE c = "\\" ->
                    IF Len(p) = 1 THEN [threw |-> TRUE, atoms |-> <<>>]
                    ELSE ParseRe(Tail(Tail(p)),
                             Append(atoms, [any |-> FALSE, ch |-> ToLower(p[2]),
                                            star |-> FALSE]))
               [] c = "." ->
                    ParseRe(Tail(p),
                        Append(atoms, [any |-> TRUE, ch |-> ".",
                                       star |-> FALSE]))
               [] c = "*" ->
                    IF atoms = <<>> \/ atoms[Len(atoms)].star
                    THEN [threw |-> TRUE, atoms |-> <<>>]
                    ELSE ParseRe(Tail(p),
                             [atoms EXCEPT ![Len(atoms)].star = TRUE])
               [] c \in {"(", ")", "["} -> [threw |-> TRUE, atoms |-> <<>>]
               [] OTHER ->
                    ParseRe(Tail(p),
                        Append(atoms, [any |-> FALSE, ch |-> ToLower(c),
                                       star |-> FALSE]))

\* Whether atom a matches the character c of the lower-cased subject.
AtomMatches(a, c) == a.any \/ a.ch = c

\* How many characters from pos on atom a matches one after the other.
RECURSIVE Run(_, _, _)
Run(a, ls, pos) ==
    IF pos <= Len(ls) /\ AtomMatches(a, ls[pos])
    THEN 1 + Run(a, ls, pos + 1)
    ELSE 0

\* The backtracking matcher: the position after the match of atoms[k..]
\* that starts at pos, 0 when there is none.  A starred atom takes as many
\* characters as it can and gives them back one by one.
RECURSIVE MatchHere(_, _, _, _)
RECURSIVE MatchStar(_, _, _, _, _)
MatchHere(atoms, k, ls, pos) ==
    IF k > Len(atoms) THEN pos
    ELSE IF atoms[k].star
         THEN MatchStar(atoms, k, ls, pos, Run(atoms[k], ls, pos))
         ELSE IF pos <= Len(ls) /\ AtomMatches(atoms[k], ls[pos])
              THEN MatchHere(atoms, k + 1, ls, pos + 1)
              ELSE 0

MatchStar(atoms, k, ls, pos, n) ==
    LET end == MatchHere(atoms, k + 1, ls, pos + n)
    IN  IF end # 0 THEN end
        ELSE IF n = 0 THEN 0
             ELSE MatchStar(atoms, k, ls, pos, n - 1)

\* The least element of a non-empty set of numbers.
Least(S) == CHOOSE p \in S : \A q \in S : p <= q

\* The positions of s at which the pattern matches.
MatchStarts(atoms, ls) ==
    { p \in 1..(Len(ls) + 1) : MatchHere(atoms, 1, ls, p) # 0 }

\* s.replace(regex, open + "$1" + close) with the flag g: from pos on, the
\* next match is replaced by itself between open and close and the search
\* goes on behind it; after an empty match it moves on by one character.
\* ls is s in lower case, starts are the positions where the pattern
\* matches, acc is the output so far.
RECURSIVE ReplaceFrom(_, _, _, _, _, _, _, _)
ReplaceFrom(atoms, s, ls, open, close, starts, pos, acc) ==
    LET next == { p \in starts : p >= pos }
    IN  IF next = {} THEN acc \o SubSeq(s, pos, Len(s))
        ELSE LET p == Least(next)
                 end == MatchHere(atoms, 1, ls, p)
                 before == acc \o SubSeq(s, pos, p - 1) \o open
             IN  IF end = p
                 THEN ReplaceFrom(atoms, s, ls, open, close, starts, p + 1,
                          before \o close \o SubSeq(s, p, Min(p, Len(s))))
                 ELSE ReplaceFrom(atoms, s, ls, open, close, starts, end,
                          before \o SubSeq(s, p, end - 1) \o close)

\* One pass of highlightText on html: the pattern is compiled and every
\* match is wrapped.  A thrown SyntaxError leaves highlightText.
ReplacePass(pattern, open, html) ==
    LET re == ParseRe(pattern, <<>>)
    IN  IF html.threw \/ re.threw THEN [threw |-> TRUE, html |-> <<>>]
        ELSE LET ls == LowerStr(html.html)
             IN  [ threw |-> FALSE,
                   html |-> ReplaceFrom(re.atoms, html.html, ls, open,
                                CloseTag, MatchStarts(re.atoms, ls), 1,
                                <<>>) ]

\* The pass of entity value v of type label.
EntityPass(label, v, html) ==
    ReplacePass(EscapeRe(v), OpenTag(ColorOf(label)), html)

\* vals.forEach((v) => ...)
RECURSIVE ValuePasses(_, _, _)
ValuePasses(label, vals, html) ==
    IF vals = <<>> THEN html
    ELSE ValuePasses(label, Tail(vals), EntityPass(label, Head(vals), html))

\* Object.entries(data.entities).forEach(([label, vals]) => ...)
RECURSIVE EntityPasses(_, _)
EntityPasses(entities, html) ==
    IF entities = <<>> THEN html
    ELSE EntityPasses(Tail(entities),
             ValuePasses(Head(entities).label, Head(entities).vals, html))

\* html.replace(/(family)/gi, ...)
FamilyPass(html) == ReplacePass(Family, FamilyOpenTag, html)

\* Whether highlightText runs its passes: if (!data?.entities) return raw.
HasEntities(d) == d.has_entities

\* highlightText(raw) for the record d.
HighlightText(d, raw) ==
    LET html == [threw |-> FALSE, html |-> raw]
    IN  IF ~HasEntities(d) THEN html
        ELSE FamilyPass(EntityPasses(d.entities, html))

\* What the Entity Intelligence panel is given as __html; nothing is
\* rendered without a record.
Html ==
    IF data = Null THEN [threw |-> FALSE, html |-> <<>>]
    ELSE HighlightText(data, ShownText)

-----------------------------------------------------------------------------
(* Dashboard: the input controls and the four analysis operations *)

\* Contents of the URL field.
UrlTexts == { <<>>, <<"u">> }

\* onChange of the textarea, which is disabled while loading.
SetText(t) ==
    /\ ~loading
    /\ t # text
    /\ text' = t
    /\ UNCHANGED <<url, data, execMode, loading, showResults, inflight,
                   revealTimers, requests, notices>>
    /\ UNCHANGED <<cuVars, twVars, sparkVars, uiVars, attackVars>>

\* onChange of the URL field, which is disabled while loading.
SetUrl(u) ==
    /\ ~loading
    /\ u # url
    /\ url' = u
    /\ UNCHANGED <<text, data, execMode, loading, showResults, inflight,
                   revealTimers, requests, notices>>
    /\ UNCHANGED <<cuVars, twVars, sparkVars, uiVars, attackVars>>

\* SetExecMode that also writes the amplified score into the held record.
SetExecModeScalesRecord(b) ==
    /\ b # execMode
    /\ execMode' = b
    /\ data' = IF data = Null \/ ~b THEN data
               ELSE [data EXCEPT !.overall_risk_score =
                                     Min(Round(12 * @, 10), 100)]
    /\ UNCHANGED <<text, url, loading, showResults, inflight,
                   revealTimers, requests, notices>>
    /\ UNCHANGED <<cuVars, twVars, sparkVars, uiVars, attackVars>>

\* onChange of the executive-mode checkbox.
SetExecMode(b) ==
    /\ b # execMode
    /\ execMode' = b
    /\ UNCHANGED <<text, url, data, loading, showResults, inflight,
                   revealTimers, requests, notices>>
    /\ UNCHANGED <<cuVars, twVars, sparkVars, uiVars, attackVars>>

\* analyzeText, analyzeUrl, uploadCsv, uploadPdf up to the await: the
\* controls that start them are disabled while loading, and analyzeText and
\* analyzeUrl return at once on blank input.
StartRequest(op) ==
    /\ ~loading
    /\ requests < MaxRequests
    /\ op = "text" => ~IsBlank(text)
    /\ op = "url" => ~IsBlank(url)
    /\ loading' = TRUE
    /\ showResults' = FALSE
    /\ inflight' = op
    /\ requests' = requests + 1
    /\ attack' = AttackRender(attack, data # Null, FALSE)
    /\ atStart' = [showResults |-> showResults, step |-> attack.step]
    /\ UNCHANGED <<text, url, data, execMode, revealTimers, notices>>
    /\ UNCHANGED <<cuVars, twVars, sparkVars, uiVars>>

\* The request in flight is answered with the record r: setData(res.data),
\* setTimeout(() => setShowResults(true), 100), setLoading(false).
RequestSucceeds(r) ==
    /\ inflight # "none"
    /\ data' = r
    /\ revealTimers' = revealTimers + 1
    /\ loading' = FALSE
    /\ inflight' = "none"
    /\ attack' = AttackRender(attack, r # Null, showResults)
    /\ UNCHANGED <<text, url, execMode, showResults, requests, notices>>
    /\ UNCHANGED <<cuVars, twVars, sparkVars, uiVars, atStart>>

\* RequestFails that also drops the held record.
RequestFailsDropsRecord ==
    /\ inflight # "none"
    /\ notices' = notices + 1
    /\ data' = Null
    /\ loading' = FALSE
    /\ inflight' = "none"
    /\ attack' = AttackRender(attack, FALSE, showResults)
    /\ UNCHANGED <<text, url, execMode, showResults, revealTimers,
                   requests>>
    /\ UNCHANGED <<cuVars, twVars, sparkVars, uiVars, atStart>>

\* The request in flight fails: alert(...), setLoading(false).
RequestFails ==
    /\ inflight # "none"
    /\ notices' = notices + 1
    /\ loading' = FALSE
    /\ inflight' = "none"
    /\ UNCHANGED <<text, url, data, execMode, showResults, revealTimers,
                   requests>>
    /\ UNCHANGED <<cuVars, twVars, sparkVars, uiVars, attackVars>>

\* A timeout set by a successful response fires: setShowResults(true).
RevealFires ==
    /\ revealTimers > 0
    /\ revealTimers' = revealTimers - 1
    /\ showResults' = TRUE
    /\ attack' = AttackRender(attack, data # Null, TRUE)
    /\ UNCHANGED <<text, url, data, execMode, loading, inflight, requests,
                   notices>>
    /\ UNCHANGED <<cuVars, twVars, sparkVars, uiVars, atStart>>

DashNext(records) ==
    \/ \E t \in BoxTexts : SetText(t)
    \/ \E u \in UrlTexts : SetUrl(u)
    \/ \E b \in BOOLEAN : SetExecMode(b)
    \/ \E op \in Operations : StartRequest(op)
    \/ \E r \in records : RequestSucceeds(r)
    \/ RequestFails
    \/ RevealFires

Init == CuIdle /\ TwIdle /\ DashIdle /\ SparkIdle /\ PageIdle

Next == DashNext(DashRecords)

Spec == Init /\ [][Next]_vars

\* The dashboard with the records whose text and entities vary.
NextHighlight == DashNext(HlRecords)

SpecHighlight == Init /\ [][NextHighlight]_vars

\* The dashboard with the records whose numbers vary.
NextMetrics == DashNext(MetricRecords)

SpecMetrics == Init /\ [][NextMetrics]_vars

-----------------------------------------------------------------------------
(* Dashboard: the controls of the result panels and the attack-path timer *)

\* onClick of a simulation channel tab.
SelectSim(k) ==
    /\ k # selectedSim
    /\ selectedSim' = k
    /\ UNCHANGED <<showDetailed, checklist>>
    /\ UNCHANGED <<cuVars, twVars, dashVars, sparkVars, attackVars>>

\* onClick of the Simple and the Detailed button.
SetShowDetailed(b) ==
    /\ b # showDetailed
    /\ showDetailed' = b
    /\ UNCHANGED <<selectedSim, checklist>>
    /\ UNCHANGED <<cuVars, twVars, dashVars, sparkVars, attackVars>>

\* onToggle of checklist item i: a copy of the array with entry i negated.
ToggleChecklist(i) ==
    /\ checklist' = [checklist EXCEPT ![i] = ~@]
    /\ UNCHANGED <<selectedSim, showDetailed>>
    /\ UNCHANGED <<cuVars, twVars, dashVars, sparkVars, attackVars>>

\* A live interval of AttackPathFlow fires.
AttackTick ==
    /\ attack.intervals > 0
    /\ attack' = [attack EXCEPT !.step = NextStep(@)]
    /\ UNCHANGED atStart
    /\ UNCHANGED <<cuVars, twVars, dashVars, sparkVars, uiVars>>

\* The dashboard with the attack-path timer running.
NextPage ==
    \/ DashNext(DashRecords)
    \/ AttackTick

SpecPage == Init /\ [][NextPage]_vars

\* The inputs of the dashboard with every control: one text, two records.
ControlTexts == { <<>>, <<"h", "i">> }

ControlRecords ==
    { Record(<<"h", "i">>, TRUE, <<>>, 90, [PERSON |-> 30], -450,
             [d30 |-> 40, d14 |-> 30, current |-> 20]),
      Record(<<"h", "i">>, FALSE, <<>>, 0, <<>>, 0, NoTrend) }

\* The dashboard with every control of the page and the attack-path timer.
NextControls ==
    \/ \E t \in ControlTexts : SetText(t)
    \/ \E u \in UrlTexts : SetUrl(u)
    \/ \E b \in BOOLEAN : SetExecMode(b)
    \/ \E op \in Operations : StartRequest(op)
    \/ \E r \in ControlRecords : RequestSucceeds(r)
    \/ RequestFails
    \/ RevealFires
    \/ \E k \in SimTabs : SelectSim(k)
    \/ \E b \in BOOLEAN : SetShowDetailed(b)
    \/ \E i \in ChecklistItems : ToggleChecklist(i)
    \/ AttackTick

SpecControls == Init /\ [][NextControls]_vars

-----------------------------------------------------------------------------
(* The specifications of the two animators *)

InitCountUp ==
    (\E t \in Targets : CuMounted(t)) /\ TwIdle /\ DashIdle /\ SparkIdle
    /\ PageIdle

SpecCountUp == InitCountUp /\ [][NextCountUp]_vars

SpecTypewriter == Init /\ [][NextTypewriter]_vars /\ TwFairness

-----------------------------------------------------------------------------
(* Claims about the count-up animator, checked under SpecCountUp *)

\* The effect run whose animation is the latest one still has its callback
\* registered.
LatestRunning == \E i \in 1..Len(rafQueue) : rafQueue[i].gen = gen

\* C1: when the target changes while an animation of the widget is still
\* running, the previous frame-callback chain is cancelled: at most one
\* frame callback is scheduled per widget, and since the latest trigger
\* only the callback of the latest animation has written the displayed
\* value.
C1_SingleSchedule ==
    /\ Len(rafQueue) <= 1
    /\ wrote \subseteq {gen}

\* C2: once the latest animation has run a frame at or after its start plus
\* the duration (its callback is no longer registered), no frame callback
\* remains registered and the displayed value is Math.round(latest target);
\* from then on the displayed value changes only after another trigger.
C2_Settled == visible /\ ~LatestRunning

C2_Convergence ==
    /\ [](C2_Settled => rafQueue = <<>> /\ current = Round(target, 10))
    /\ [][C2_Settled /\ gen' = gen => current' = current]_vars

\* Reached: a re-trigger to 12.5 while the first animation was running, both
\* callbacks wrote after it, and the widget settled on 13.
C2_Witness ==
    /\ C2_Settled
    /\ gen = 2
    /\ wrote = {1, 2}
    /\ target = 125
    /\ current = 13

-----------------------------------------------------------------------------
(* Claims about the typewriter, checked under SpecTypewriter *)

\* The live intervals the instances of slot w created.
TwLive(w) == { tm \in twTimers : tm.slot = w }

\* C3: after k interval ticks since a trigger with non-empty text T the
\* displayed string is T[0 : min(k, |T|)], the interval is live exactly
\* while fewer than |T| ticks have run, and a reveal that is not
\* re-triggered or unmounted eventually displays T with no interval left.
C3_Prefix ==
    \A w \in Slots :
        tw[w].mounted /\ tw[w].text # <<>> =>
            /\ tw[w].displayed = Slice(tw[w].text, tw[w].ticks)
            /\ (TwLive(w) # {}) <=> (tw[w].ticks < Len(tw[w].text))

C3_Completeness ==
    /\ []C3_Prefix
    /\ \A w \in Slots : \A r \in 1..(MaxReveals + 1) :
           (tw[w].mounted /\ tw[w].runs = r /\ tw[w].text # <<>>)
               ~> \/ tw[w].displayed = tw[w].text /\ TwLive(w) = {}
                  \/ ~tw[w].mounted
                  \/ tw[w].runs # r

\* Reached: a three-character text fully revealed by three ticks.
C3_Witness ==
    \E w \in Slots :
        /\ tw[w].mounted
        /\ tw[w].text = <<"a", "b", "c">>
        /\ tw[w].ticks = 3
        /\ tw[w].displayed = <<"a", "b", "c">>
        /\ TwLive(w) = {}

\* C4: after the text identity of a typewriter changed (a new text for the
\* instance, or a new key), the earlier interval is cancelled, the revealed
\* length restarts at 0, and every displayed string is a prefix of the new
\* text.
C4_Retrigger ==
    \A w \in Slots :
        tw[w].mounted =>
            /\ IsPrefix(tw[w].displayed, tw[w].text)
            /\ tw[w].ticks = 0 => tw[w].displayed = <<>>
            /\ \A tm \in TwLive(w) :
                   tm.id = tw[w].runs /\ tm.text = tw[w].text

\* C5: each slot has at most one live interval, and it is the one of the
\* latest effect run of the mounted instance, which has not yet revealed
\* its whole text; so none is left after Done, a re-trigger or an unmount.
\* A tick of one slot's interval changes nothing of another slot.
C5_OneInterval ==
    \A w \in Slots :
        /\ Cardinality(TwLive(w)) <= 1
        /\ \A tm \in TwLive(w) :
               /\ tw[w].mounted
               /\ tm.id = tw[w].runs
               /\ tm.text = tw[w].text
               /\ tm.i < Len(tm.text)

C5_TickIsLocal ==
    \A tm \in twTimers :
        TwTick(tm) =>
            \A w \in Slots \ {tm.slot} :
                tw'[w] = tw[w] /\ TwLive(w)' = TwLive(w)

C5_TimerOwnership == []C5_OneInterval /\ [][C5_TickIsLocal]_vars

\* Reached: slot 1 re-triggered and in the middle of its second reveal,
\* slot 2 unmounted in the middle of a reveal.
C5_Witness ==
    /\ tw[1].mounted /\ tw[1].runs = 2 /\ tw[1].ticks = 1
    /\ TwLive(1) # {}
    /\ ~tw[2].mounted /\ tw[2].runs = 1
    /\ TwLive(2) = {}

\* C6: while the source text of a mounted instance is empty, no interval of
\* it is live and the displayed string is empty.
C6_EmptyText ==
    \A w \in Slots :
        tw[w].mounted /\ tw[w].text = <<>> =>
            tw[w].displayed = <<>> /\ TwLive(w) = {}

-----------------------------------------------------------------------------
(* Claims about the highlighter, checked under SpecHighlight *)

\* The tags the passes insert.
InsertedTags ==
    { CloseTag, FamilyOpenTag }
    \cup { OpenTag(ColorOf(l)) : l \in {"GPE", "PERSON", "ORG", "DATE", ""} }

\* The positions of s at which an inserted tag stands whole.
TagStarts(s) ==
    { p \in 1..Len(s) : \E t \in InsertedTags : StartsWithAt(s, p, t) }

TagAt(s, p) == CHOOSE t \in InsertedTags : StartsWithAt(s, p, t)

\* s without the inserted tags that stand whole in it, read left to right.
RECURSIVE StripFrom(_, _, _, _)
StripFrom(s, starts, pos, acc) ==
    LET next == { p \in starts : p >= pos }
    IN  IF next = {} THEN acc \o SubSeq(s, pos, Len(s))
        ELSE LET p == Least(next)
             IN  StripFrom(s, starts, p + Len(TagAt(s, p)),
                           acc \o SubSeq(s, pos, p - 1))

StripTags(s) == StripFrom(s, TagStarts(s), 1, <<>>)

\* C7: the highlighter only inserts span tags around matched substrings and
\* no pass damages the text or a tag of an earlier pass: the output is the
\* shown text with whole tags in it, so taking the tags out gives back the
\* text character for character.
C7_TextPreserved ==
    data # Null =>
        /\ ~Html.threw
        /\ StripTags(Html.html) = ShownText

\* v wrapped wherever it occurs in s as a literal, in any letter case,
\* left to right (v is not empty).
RECURSIVE LiteralWrapFrom(_, _, _, _, _, _)
LiteralWrapFrom(v, open, s, starts, pos, acc) ==
    LET next == { p \in starts : p >= pos }
    IN  IF next = {} THEN acc \o SubSeq(s, pos, Len(s))
        ELSE LET p == Least(next)
             IN  LiteralWrapFrom(v, open, s, starts, p + Len(v),
                     acc \o SubSeq(s, pos, p - 1) \o open
                         \o SubSeq(s, p, p + Len(v) - 1) \o CloseTag)

LiteralWrap(v, open, s) ==
    LET ls == LowerStr(s)
        lv == LowerStr(v)
    IN  LiteralWrapFrom(v, open, s,
            { p \in 1..Len(s) : StartsWithAt(ls, p, lv) }, 1, <<>>)

\* C8: the pass of each entity value v never throws, and on the string it
\* is applied to (the shown text, or text that already holds markup) it
\* wraps exactly the literal occurrences of v in any letter case, with
\* their own letter case inside the span.
C8_LiteralMatching ==
    data # Null /\ HasEntities(data) =>
        /\ ~Html.threw
        /\ \A i \in 1..Len(data.entities) :
           \A j \in 1..Len(data.entities[i].vals) :
           \A s \in {ShownText, Html.html} :
               LET label == data.entities[i].label
                   v == data.entities[i].vals[j]
                   pass == EntityPass(label, v, [threw |-> FALSE, html |-> s])
               IN  /\ ~pass.threw
                   /\ pass.html = LiteralWrap(v, OpenTag(ColorOf(label)), s)

\* Reached: "Jennifer Walsh" wrapped "jennifer walsh" and "A.B*C" wrapped
\* exactly the text "A.B*C", not "AxBC".
C8_Witness ==
    /\ data # Null
    /\ Html.html =
           OpenTag(ColorOf("PERSON")) \o <<"j", "e", "n", "n", "i", "f", "e",
                                           "r", " ", "w", "a", "l", "s", "h">> \o CloseTag
           \o <<" ", "o", "n", " ">>
           \o OpenTag(ColorOf("ORG")) \o <<"A", ".", "B", "*", "C">> \o CloseTag
           \o <<" ", "A", "x", "B", "C">>

\* Whether h holds the word family, in any letter case, in a family span.
HasFamilySpan(h) ==
    \E p \in 1..Len(h) :
        LET q == p + Len(FamilyOpenTag)
        IN  /\ StartsWithAt(h, p, FamilyOpenTag)
            /\ StartsWithAt(LowerStr(h), q, Family)
            /\ StartsWithAt(h, q + Len(Family), CloseTag)

\* C9: whenever a record is held and the shown text contains "family" in
\* any letter case, familyExposureFlag is 73 and the highlighted output
\* holds a family span around the word, whatever the entities mapping of
\* the record is (none, empty, or any values).
C9_FamilySpan ==
    data # Null /\ Includes(LowerStr(ShownText), Family) =>
        /\ FamilyIdx = 73
        /\ ~Html.threw
        /\ HasFamilySpan(Html.html)

-----------------------------------------------------------------------------
(* Claims about the derived metrics, checked under Spec *)

\* C10: while no record has been received, every derived metric is zero and
\* every chart series is empty, whatever the text box holds and whatever
\* the display mode is.
C10_Defaults ==
    data = Null =>
        /\ EffectiveScore = 0
        /\ IdentityIdx = 0
        /\ LocationIdx = 0
        /\ CorpIdx = 0
        /\ EmoIdx = 0
        /\ FamilyIdx = 0
        /\ BreakdownData = <<>>
        /\ RadarData = <<>>
        /\ TrendData = <<>>

-----------------------------------------------------------------------------
(* Claims about the derived metrics, checked under SpecMetrics *)

\* Math.round of the rational n / d (d > 0), stated as the integer nearest
\* to it, the upper one of two.
Nearest(n, d) ==
    CHOOSE k \in -200..200 : 2 * d * k - d <= 2 * n /\ 2 * n < 2 * d * k + d

\* C11: for every overall_risk_score in 0..100, with executive mode on the
\* effective score is min(round(score * 1.2), 100), at most 100, and 0 for
\* score 0; with executive mode off it is the score.
C11_ScoreCap ==
    Score \in 0..100 =>
        /\ execMode =>
             /\ EffectiveScore = Min(Nearest(12 * Score, 10), 100)
             /\ EffectiveScore <= 100
             /\ Score = 0 => EffectiveScore = 0
        /\ ~execMode => EffectiveScore = Score

\* Reached: score 90 in executive mode, where round(108) is capped.
C11_Witness ==
    /\ data # Null
    /\ execMode
    /\ Score = 90
    /\ EffectiveScore = 100

\* The band of a score, by its interval.
BandOf(s) ==
    CASE s \in 0..30 -> "Low Risk"
      [] s \in 31..60 -> "Moderate Risk"
      [] s \in 61..80 -> "High Risk"
      [] s \in 81..100 -> "Critical Risk"

\* C12: getRiskLabel gives Low up to 30, Moderate from 31 to 60, High from
\* 61 to 80 and Critical above 80, for every score 0..100 and for the
\* effective score shown; 30, 31, 60, 61, 80, 81 give Low, Moderate,
\* Moderate, High, High, Critical.
C12_Banding ==
    /\ \A s \in 0..100 : GetRiskLabel(s) = BandOf(s)
    /\ RiskLabel = BandOf(EffectiveScore)
    /\ << GetRiskLabel(30), GetRiskLabel(31), GetRiskLabel(60),
          GetRiskLabel(61), GetRiskLabel(80), GetRiskLabel(81) >>
       = << "Low Risk", "Moderate Risk", "Moderate Risk",
            "High Risk", "High Risk", "Critical Risk" >>

\* Reached: a record with score 80 shown with the label High Risk.
C12_Witness ==
    /\ data # Null
    /\ ~execMode
    /\ EffectiveScore = 80
    /\ RiskLabel = "High Risk"

\* C13: in executive mode the risk color is the critical hue for every
\* score, also with no record, and the label is the band of the effective
\* score; outside executive mode the color and the label name one band.
C13_Asymmetry ==
    /\ execMode =>
         /\ RiskColor = "#f87171"
         /\ RiskLabel = BandOf(EffectiveScore)
    /\ ~execMode =>
         << RiskColor, RiskLabel >> \in
             { << "#4ade80", "Low Risk" >>, << "#facc15", "Moderate Risk" >>,
               << "#fb923c", "High Risk" >>, << "#f87171", "Critical Risk" >> }

\* Reached: executive mode with a record of score 10: critical hue, Low.
C13_Witness ==
    /\ data # Null
    /\ execMode
    /\ Score = 10
    /\ RiskColor = "#f87171"
    /\ RiskLabel = "Low Risk"

\* The weight of key in the record held, 0 when the key is absent.
WeightOf(key) ==
    LET fc == data.feature_contributions
    IN  IF \E k \in DOMAIN fc : k = key THEN fc[key] ELSE 0

\* C14: for every record held, the identity, location and corporate indices
\* are the weights of PERSON, GPE and ORG (0 when absent), the emotional
\* index is round(sentiment score * 100), and the family flag is 73 exactly
\* when the record's text contains "family" in any letter case; weights
\* 12, 20, 5 with sentiment 0.3 and a text with "family" give 12, 20, 5,
\* 30, 73.
C14_Indices ==
    data # Null =>
        /\ IdentityIdx = WeightOf("PERSON")
        /\ LocationIdx = WeightOf("GPE")
        /\ CorpIdx = WeightOf("ORG")
        /\ EmoIdx = Nearest(data.sentiment_score, 10)
        /\ FamilyIdx \in {0, 73}
        /\ FamilyIdx = 73 <=>
               \E p \in 1..Len(data.original_text) :
                   StartsWithAt(LowerStr(data.original_text), p, Family)
        /\ ( /\ data.feature_contributions = [PERSON |-> 12, GPE |-> 20, ORG |-> 5]
             /\ data.sentiment_score = 300
             /\ FamilyIdx = 73 )
           => << IdentityIdx, LocationIdx, CorpIdx, EmoIdx, FamilyIdx >>
                  = << 12, 20, 5, 30, 73 >>

\* Reached: the record with weights 12, 20, 5, sentiment 0.3 and "family".
C14_Witness ==
    /\ data # Null
    /\ data.feature_contributions = [PERSON |-> 12, GPE |-> 20, ORG |-> 5]
    /\ << IdentityIdx, LocationIdx, CorpIdx, EmoIdx, FamilyIdx >>
           = << 12, 20, 5, 30, 73 >>

\* C15: with a record held, every category value shown in the breakdown
\* distribution and in the exposure heatmap is non-zero: a zero index is
\* shown as a fixed non-zero placeholder.
C15_Placeholders ==
    data # Null =>
        /\ \A i \in 1..Len(BreakdownData) : BreakdownData[i].value # 0
        /\ \A i \in 1..Len(HeatmapData) : HeatmapData[i].value # 0

\* C18: with a record held, the generator seeds of any two different metric
\* cards differ.
C18_SeedsDiffer ==
    data # Null =>
        \A j \in Cards : \A k \in Cards \ {j} :
            (CardValue(j) \in 0..100 /\ CardValue(k) \in 0..100)
                => CardSeed(j) # CardSeed(k)

\* C19: with a record held the trend series is the three points 30d, 14d,
\* Now with the record's values, in this order, and the direction is up
\* exactly when current > 30-days-ago and down otherwise, whatever the value
\* of 14 days ago is.
C19_Trend ==
    data # Null =>
        /\ TrendData =
             << [name |-> "30d", value |-> data.trend_analysis.d30],
                [name |-> "14d", value |-> data.trend_analysis.d14],
                [name |-> "Now", value |-> data.trend_analysis.current] >>
        /\ TrendDirection \in {"up", "down"}
        /\ TrendDirection = "up" <=>
               data.trend_analysis.current > data.trend_analysis.d30

\* Reached: current equals the value of 30 days ago and is below the value
\* of 14 days ago, and the direction is down.
C19_Witness ==
    /\ data # Null
    /\ data.trend_analysis = [d30 |-> 50, d14 |-> 70, current |-> 50]
    /\ TrendDirection = "down"

-----------------------------------------------------------------------------
(* Claims about the analysis operations, checked under Spec *)

\* A step in which the operation in flight ends without scheduling the
\* reveal of results: it failed.
OperationFailed ==
    /\ inflight # "none"
    /\ inflight' = "none"
    /\ revealTimers' = revealTimers

\* C20: a failing analysis operation raises exactly one notice, sends no
\* further request and leaves the loading state; the held record does not
\* change from the start of an operation to its failure (it stays null if
\* there was none); and a notice is raised by nothing else.
C20_FailureStep ==
    /\ (inflight # "none" /\ inflight' # "none") => data' = data
    /\ OperationFailed =>
           /\ notices' = notices + 1
           /\ data' = data
           /\ requests' = requests
           /\ ~loading'
    /\ notices' # notices => OperationFailed

C20_Failure == [][C20_FailureStep]_vars

\* Reached: a record was received and shown, a second operation was started
\* and failed, and the record is still held.
C20_Witness ==
    /\ data # Null
    /\ notices = 1
    /\ requests = 2
    /\ inflight = "none"
    /\ revealTimers = 0
    /\ ~showResults

-----------------------------------------------------------------------------
(* Claims about the sparklines, checked under SpecSparkline *)

\* (w * 1664525 + 1013904223) mod 2^32 by long multiplication on the bytes
\* of w, least significant first.
LcgByBytes(w) ==
    LET b0 == w.lo % 256
        b1 == w.lo \div 256
        b2 == w.hi % 256
        b3 == w.hi \div 256
        c0 == b0 * 13 + 95
        c1 == b1 * 13 + b0 * 102 + 243 + (c0 \div 256)
        c2 == b2 * 13 + b1 * 102 + b0 * 25 + 110 + (c1 \div 256)
        c3 == b3 * 13 + b2 * 102 + b1 * 25 + 60 + (c2 \div 256)
    IN  [hi |-> (c3 % 256) * 256 + (c2 % 256),
         lo |-> (c1 % 256) * 256 + (c0 % 256)]

\* 2^32 as a divisor.
TwoTo32 == [hi |-> Half, lo |-> 0]

\* The state of the generator before draw i of the latest call.
StateBefore(i) ==
    IF i = 1 THEN Word(lastCall.seed + lastCall.val)
    ELSE lastCall.draws[i - 1].state

\* The part of C16 about the state: each draw takes the state to
\* (state * 1664525 + 1013904223) mod 2^32.
LcgStateUpdate ==
    lastCall # NoCall =>
        \A i \in 1..Len(lastCall.draws) :
            lastCall.draws[i].state = LcgByBytes(StateBefore(i))

\* C16: each draw of the latest call took the state to
\* (state * 1664525 + 1013904223) mod 2^32 and returned state / 2^32, a
\* value in [0, 1).
C16_Draw ==
    lastCall # NoCall =>
        \A i \in 1..Len(lastCall.draws) :
            LET d == lastCall.draws[i]
            IN  /\ d.state = LcgByBytes(StateBefore(i))
                /\ d.value.num = d.state
                /\ d.value.den = TwoTo32
                /\ WideLess(d.value.num.hi, d.value.num.lo,
                            d.value.den.hi, d.value.den.lo)

\* C17: a call of makeSparkline returns exactly 7 points, none below 0,
\* made from 7 draws in point order, draw i being step i of the generator
\* seeded with seed + round(v); for v >= 0 point i is
\* v - (6 - i) * (v / 12) + 4 * draw i; and a call with the watched
\* arguments returns what the first call with them returned, whatever
\* calls were made since.
C17_Sparkline ==
    lastCall # NoCall =>
        /\ Len(lastCall.points) = 7
        /\ Len(lastCall.draws) = 7
        /\ \A i \in 1..7 :
               /\ ~NegativeSum(lastCall.points[i].twelfths,
                               lastCall.points[i].draw)
               /\ lastCall.draws[i].state = LcgByBytes(StateBefore(i))
               /\ lastCall.val >= 0 =>
                      /\ 12 * lastCall.points[i].twelfths
                             = 12 * (12 * lastCall.val
                                       - (7 - i) * lastCall.val)
                      /\ lastCall.points[i].draw = lastCall.draws[i].value
        /\ [val |-> lastCall.val, seed |-> lastCall.seed] = watched
               => lastCall.points = watchedPoints

\* Reached: makeSparkline(0, 1) was called, and again after a call with
\* other arguments left another generator state behind; its first and
\* last points hold steps 1 and 7 of the generator seeded with 1.
C17_Witness ==
    /\ lastCall # NoCall
    /\ watched = [val |-> 0, seed |-> 1]
    /\ lastCall.val = 0 /\ lastCall.seed = 1
    /\ lastCall.between
    /\ watchedPoints = lastCall.points
    /\ lastCall.points[1].draw.num = [hi |-> 15496, lo |-> 22892]
    /\ lastCall.points[7].draw.num = [hi |-> 50774, lo |-> 56722]

-----------------------------------------------------------------------------
(* Claims about the page controls, checked under SpecControls *)

\* The step of the model in which a response is applied: the request in
\* flight ends without a notice and a reveal timer is set.
ResponseApplied ==
    /\ inflight # "none" /\ inflight' = "none"
    /\ loading /\ ~loading'
    /\ notices' = notices
    /\ revealTimers' = revealTimers + 1

\* C21: the held record changes only by being replaced as a whole with the
\* record of a successful response; executive mode, the simulation channel,
\* the simple / detailed switch, the checklist, the input fields and the
\* attack-path animation leave it as it is.
C21_Immutable ==
    [][data' # data => ResponseApplied /\ data' \in ControlRecords]_vars

\* A record is held, it is not the latest input, and every control has been
\* used and the animation has advanced since.
C21_Witness ==
    /\ data # Null
    /\ execMode
    /\ selectedSim # "email"
    /\ showDetailed
    /\ checklist[2]
    /\ text # data.original_text
    /\ url # <<>>
    /\ attack.step = 2
    /\ notices > 0

-----------------------------------------------------------------------------
(* Claims about the timing of the count-up, checked under SpecCountUp *)

\* C22: the start timestamp of an animation is the time of its trigger:
\* every callback chain that has run a frame measures its progress from the
\* clock at which the effect run that made it was triggered.
C22_StartAtTrigger ==
    \A i \in 1..Len(rafQueue) :
        rafQueue[i].start # 0 => rafQueue[i].start = rafQueue[i].at

\* C23: until the card is visible the displayed value is 0 and no frame
\* callback is registered; once visible the card stays visible; and the
\* easing time of an animation is measured from its own first frame, which
\* comes after its trigger, so the value the latest animation shows is the
\* eased value for the time since that frame.
C23_Stagger ==
    /\ [](~visible => current = 0 /\ rafQueue = <<>> /\ gen = 0)
    /\ [][visible => visible']_vars
    /\ [](\A i \in 1..Len(rafQueue) :
            LET c == rafQueue[i]
            IN  c.start # 0 =>
                  /\ c.start > c.at
                  /\ c.gen = gen =>
                       current = EasedValue(c.target,
                                            Min(now - c.start, Duration)))

\* Reached: the card became visible after a stagger delay and its first
\* animation is in the middle of its run.
C23_Witness ==
    /\ visible
    /\ gen = 1
    /\ Len(rafQueue) = 1
    /\ rafQueue[1].at > 1
    /\ rafQueue[1].start # 0
    /\ now > rafQueue[1].start
    /\ current > 0
    /\ current < Round(target, 10)

\* C28: while every target the widget has been given is non-negative, the
\* displayed value lies between 0 and Math.round of the latest target.
C28_ValueBound ==
    (/\ target >= 0
     /\ current >= 0
     /\ \A i \in 1..Len(rafQueue) : rafQueue[i].target >= 0)
    => current <= Round(target, 10)

-----------------------------------------------------------------------------
(* Claims about the attack-path flow and the requests, checked under
   SpecPage and Spec *)

\* C24: the step of the attack path is always in 0..4; the instance is
\* active exactly while the results are shown; while it is inactive the
\* step is 0 and no interval is live, while it is active exactly one is;
\* a tick raises the step by 1 below 4 and leaves it at 4; and an
\* activation starts from step 0.
C24_AttackPath ==
    /\ [](/\ attack.step \in 0..4
          /\ attack.active = (attack.mounted /\ showResults)
          /\ attack.intervals = IF attack.active THEN 1 ELSE 0
          /\ ~attack.active => attack.step = 0)
    /\ [][attack.active /\ attack'.active =>
             \/ attack'.step = attack.step
             \/ attack.step < 4 /\ attack'.step = attack.step + 1]_vars
    /\ [][~attack.active /\ attack'.active => attack'.step = 0]_vars

\* Reached: the last stage was shown, a new request reset the flow, and the
\* next activation has run up to the last stage again.
C24_Witness ==
    /\ attack.active
    /\ attack.step = 4
    /\ atStart.step = 4
    /\ atStart.showResults
    /\ requests >= 2

\* C25: while an analysis request is in flight the results are not shown.
C25_HiddenWhileLoading == loading => ~showResults

\* C26: when a request that was started while the results of a held record
\* were shown fails, the record is the one held before, the results are
\* still shown and the attack path stands at the stage it had when the
\* request was started.
C26_FailureRestores ==
    [][(OperationFailed /\ data # Null /\ atStart.showResults) =>
           /\ data' = data
           /\ showResults'
           /\ attack'.step = atStart.step]_vars

\* A string of spaces only.
AllSpaces(s) == \A i \in 1..Len(s) : s[i] = " "

\* C27: loading is true exactly while a request is in flight; a request is
\* sent only while none is in flight, with loading set in the same step,
\* and never by analyzeText or analyzeUrl on a blank input; loading is
\* cleared only by the response or the failure of the request in flight,
\* and a record is applied only as the response to the one request in
\* flight.
C27_Exclusion ==
    /\ [](loading <=> inflight # "none")
    /\ [][requests' # requests =>
             /\ requests' = requests + 1
             /\ ~loading /\ inflight = "none"
             /\ loading' /\ inflight' \in Operations
             /\ inflight' = "text" => ~AllSpaces(text)
             /\ inflight' = "url" => ~AllSpaces(url)]_vars
    /\ [][inflight' # inflight =>
             \/ requests' = requests + 1
             \/ inflight' = "none" /\ ~loading' /\ requests' = requests]_vars
    /\ [][data' # data => inflight # "none" /\ inflight' = "none"]_vars

\* Reached: with a blank text in the box a third request, for the URL, is
\* in flight after one response and one failure.
C27_Witness ==
    /\ text = <<" ">>
    /\ loading
    /\ inflight = "url"
    /\ requests = 3
    /\ notices = 1
    /\ data # Null

-----------------------------------------------------------------------------
(* Claims about the percentages and the highlighter, checked under
   SpecMetrics and SpecHighlight *)

\* The held record lies in the ranges of the data model: a score in 0..100,
\* weights that are not negative, a sentiment score in [-1, 1].
InModelRanges ==
    /\ data # Null
    /\ data.overall_risk_score \in 0..100
    /\ \A k \in DOMAIN data.feature_contributions :
           data.feature_contributions[k] >= 0
    /\ data.sentiment_score \in -1000..1000

\* C29: for a record in the ranges of the data model, in either display
\* mode, every number shown as a percentage is in 0..100: the targets of
\* the metric cards, the heatmap values and bar widths, the radial gauge
\* and the radar values.
C29_PercentRange ==
    InModelRanges =>
        /\ \A k \in Cards : CardTarget(k) \in 0..100
        /\ \A i \in 1..Len(HeatmapData) :
               /\ HeatmapShown(HeatmapData[i].value) \in 0..100
               /\ HeatmapWidth(HeatmapData[i].value) \in 0..100
        /\ RadialValue \in 0..100
        /\ \A k \in DOMAIN RadarData : RadarData[k] \in 0..100

\* The entity values of a mapping in iteration order, each with its type.
RECURSIVE FlatValues(_)
FlatValues(entities) ==
    IF entities = <<>> THEN <<>>
    ELSE [ j \in 1..Len(Head(entities).vals) |->
             [label |-> Head(entities).label, v |-> Head(entities).vals[j]] ]
         \o FlatValues(Tail(entities))

\* One literal wrap per value, in order, each on the output of the one
\* before, and the wrap of "family" last.
RECURSIVE WrapInOrder(_, _)
WrapInOrder(values, s) ==
    IF values = <<>> THEN LiteralWrap(Family, FamilyOpenTag, s)
    ELSE WrapInOrder(Tail(values),
             LiteralWrap(Head(values).v, OpenTag(ColorOf(Head(values).label)),
                         s))

\* The inserted tags do not hold v in any letter case.
NotInTags(v) ==
    \A t \in InsertedTags : ~Includes(LowerStr(t), LowerStr(v))

\* h holds a span of the colour of label around text that reads as v, in
\* any letter case, whatever spans are nested in it.
HasSpanOf(h, label, v) ==
    \E p \in 1..Len(h) :
        /\ StartsWithAt(h, p, OpenTag(ColorOf(label)))
        /\ StartsWithAt(LowerStr(StripTags(SubSeq(h, p, Len(h)))), 1,
                        LowerStr(v))

\* C30: for a record with an entities mapping the output is the raw text
\* after one wrap per entity value in mapping order and the family wrap
\* last; and every entity value that occurs in the raw text, also one that
\* overlaps a value wrapped before it, stands in a span of its own colour.
C30_PassOrder ==
    (data # Null /\ HasEntities(data)) =>
        LET values == FlatValues(data.entities)
        IN  /\ ~Html.threw
            /\ Html.html = WrapInOrder(values, ShownText)
            /\ \A j \in 1..Len(values) :
                   (/\ \A k \in 1..Len(values) : NotInTags(values[k].v)
                    /\ Includes(LowerStr(ShownText), LowerStr(values[j].v)))
                   => HasSpanOf(Html.html, values[j].label, values[j].v)

=============================================================================
